---- MODULE Spec2Model ----
(***************************************************************************)
(* Connection pool of pymysqlpool: the pool manager of connection.py       *)
(* (borrow_connection, auto-resize, _extend_connection_pool, the scoped    *)
(* connection() helper) on top of the pool container (a deque of free      *)
(* items, a list of busy items, a ceiling).  The container's borrow and    *)
(* return follow _get_free_connection and return_connection of pool.py.    *)
(* Every python statement that reads or writes shared state is one step    *)
(* of the calling thread, so that threads interleave as they do under the  *)
(* interpreter.                                                            *)
(***************************************************************************)
EXTENDS Integers, Sequences, FiniteSets, TLC

(* ------------------------------ bounds -------------------------------- *)
NThreads == 2

(* Threads are the calls in flight: a caller that was handed a connection *)
(* keeps it (handed) while the thread goes on to serve another call.      *)
Threads == 1..NThreads
ThreeThreads == 1..3

(* Configurations the constructor is called with. *)
MaxPoolSizes == {2, 3}
StepSizes == {2}
Boundaries == {2, 4}
ScaleTenths == {10, 12, 15, 20}

VARIABLES
    max_pool_size,          \* manager: self._max_pool_size
    step_size,              \* manager: self._step_size
    enable_auto_resize,     \* manager: self._enable_auto_resize
    pool_resize_boundary,   \* manager: self._pool_resize_boundary
    auto_resize_scale,      \* manager: self._auto_resize_scale
    container_max,          \* container: self._max_pool_size
    free_items,             \* container: deque of free items, left end first
    busy_items,             \* container: the busy items (a list whose order is never read)
    safe_lock,              \* manager: owner of self.__safe_lock, 0 when free
    handed,                 \* per item: callers that were handed it and have not returned it
    pc,                     \* per thread: the statement it is at
    conn,                   \* per thread: `conn` of the connection() helper
    arg,                    \* per thread: the argument of its return_connection
    block,                  \* per thread: the block argument of the pending get
    ext_i,                  \* per thread: loop index of _extend_connection_pool
    scope,                  \* per thread: the call was made by the connection() helper
    is_killed,              \* manager: self.__is_killed
    is_connected,           \* manager: self.__is_connected
    closed,                 \* per item: how many times its close() was invoked
    alive,                  \* per item: its underlying connection is open and usable
    gen,                    \* per item: how many underlying connections it has had
    instances,              \* pymysqlpool._instances: pool name -> manager, 0 when absent
    reg,                    \* per thread: locals of its ConnectionPool() call
    args,                   \* the constructor arguments while a caller still has them
    tx,                     \* per thread: the transact() call of its PoolCursor
    test_conn,              \* per thread: connect()'s throwaway connection
    abandoned               \* a connection a fill created is open and not in the pool

config == <<step_size, enable_auto_resize, pool_resize_boundary, auto_resize_scale>>
container == <<container_max, free_items, busy_items>>
locals == <<conn, arg, block, ext_i, scope>>
lifecycle == <<is_killed, is_connected, closed>>
health == <<alive, gen, abandoned>>
registry == <<instances, reg>>
others == <<config, lifecycle, registry, args, tx, test_conn>>
fixed == <<others, health>>
vars == <<max_pool_size, fixed, container, safe_lock, handed, pc, locals>>

(* ------------------------------ helpers ------------------------------- *)
Min(a, b) == IF a < b THEN a ELSE b
Max(a, b) == IF a > b THEN a ELSE b

SeqToSet(s) == {s[i] : i \in 1..Len(s)}

(* int(round(x, 0)) for x given in tenths: python rounds half to even *)
IntRound(tenths) ==
    LET q == tenths \div 10
        r == tenths % 10
    IN  IF r < 5 THEN q
        ELSE IF r > 5 THEN q + 1
        ELSE IF q % 2 = 0 THEN q ELSE q + 1

pool_size == Len(free_items) + Cardinality(busy_items)
free_size == Len(free_items)

(* Identities of connections: the items of a pool are numbered as they    *)
(* are added; ForeignConn is a connection the pool never issued.          *)
SetMax(S) == CHOOSE x \in S : \A y \in S : y <= x
Items == 1..SetMax(Boundaries)
ForeignConn == SetMax(Boundaries) + 1

(* Values of the variables that are not in use: no ConnectionPool() call *)
(* in progress, no transact() call in progress, no constructor arguments *)
(* kept by a caller.                                                      *)
PoolNames == {"a", "b"}
NoCall == [name |-> "", pool |-> 0]
NoTx == [conn |-> 0, left |-> 0, begun |-> FALSE, failed |-> FALSE,
         commits |-> 0, rollbacks |-> 0, raised |-> FALSE]
NoArgs == [max_pool_size |-> 0, step_size |-> 0, enable_auto_resize |-> FALSE,
           auto_resize_scale |-> 0, pool_resize_boundary |-> 0,
           defer_connect_pool |-> FALSE]

(* ----------------------------- container ------------------------------ *)
(* PoolContainer.add: a new item is registered as free; PoolIsFull when   *)
(* the container already holds max_pool_size items.                       *)
AddRejected == pool_size >= container_max
AddItem(item) == Append(free_items, item)

(* PoolContainer.max_pool_size setter: the ceiling is only ever raised,   *)
(* and never beyond the boundary.                                         *)
SetCeiling(value) == Max(container_max, Min(value, pool_resize_boundary))

(* ------------------------------- Init --------------------------------- *)
(* MySQLConnectionPool.__init__: the ceiling is the configured size       *)
(* clamped to the boundary, the scale is rounded to an integer.  With     *)
(* defer_connect_pool the pool starts empty, otherwise connect() has run  *)
(* one fill of step_size connections.                                     *)
InitCeiling(m, b) == IF m < b THEN m ELSE b

InitialFill(n) == [i \in 1..n |-> i]

InitManager(sizes, steps, autos, boundaries, scales, defers) ==
    /\ step_size \in steps
    /\ enable_auto_resize \in autos
    /\ pool_resize_boundary \in boundaries
    /\ auto_resize_scale \in {IntRound(s) : s \in scales}
    /\ \E m \in sizes :
          /\ max_pool_size = InitCeiling(m, pool_resize_boundary)
          /\ container_max = InitCeiling(m, pool_resize_boundary)
          /\ \E defer_connect_pool \in defers :
                /\ free_items = IF defer_connect_pool THEN <<>>
                                ELSE InitialFill(Min(step_size,
                                         InitCeiling(m, pool_resize_boundary)))
                /\ is_connected = ~defer_connect_pool
    /\ busy_items = {}
    /\ safe_lock = 0
    /\ handed = [e \in Items |-> 0]
    /\ is_killed = FALSE
    /\ closed = [e \in Items |-> 0]
    /\ alive = [e \in Items |-> TRUE]
    /\ gen = [e \in Items |-> 1]
    /\ abandoned = FALSE
    /\ instances = [n \in PoolNames |-> 0]
    /\ args = NoArgs

InitThreads(T) ==
    /\ pc = [t \in T |-> "idle"]
    /\ conn = [t \in T |-> 0]
    /\ arg = [t \in T |-> 0]
    /\ block = [t \in T |-> FALSE]
    /\ ext_i = [t \in T |-> 0]
    /\ scope = [t \in T |-> FALSE]
    /\ reg = [t \in T |-> NoCall]
    /\ tx = [t \in T |-> NoTx]
    /\ test_conn = [t \in T |-> "none"]

Init ==
    /\ InitManager(MaxPoolSizes, StepSizes, BOOLEAN, Boundaries, ScaleTenths,
                   BOOLEAN)
    /\ InitThreads(Threads)

(* ------------------------- call bookkeeping --------------------------- *)
(* When the call of thread t returns or raises, every                     *)
(* `with self.__safe_lock` block of its call chain is left.               *)
Unlock(t) == safe_lock' = IF safe_lock = t THEN 0 ELSE safe_lock

(* borrow_connection(True), the tail call of every miss path *)
Recur(t) ==
    /\ pc' = [pc EXCEPT ![t] = "get_check"]
    /\ block' = [block EXCEPT ![t] = TRUE]

(* the call of thread t ends by an exception *)
Raise(t) ==
    /\ pc' = [pc EXCEPT ![t] = "idle"]
    /\ scope' = [scope EXCEPT ![t] = FALSE]
    /\ Unlock(t)

(* ------------------------ borrow_connection --------------------------- *)
BorrowStart(t) ==
    /\ pc[t] = "idle"
    /\ pc' = [pc EXCEPT ![t] = "get_check"]
    /\ block' = [block EXCEPT ![t] = FALSE]
    /\ UNCHANGED <<max_pool_size, fixed, container, safe_lock,
                   handed, conn, arg, ext_i, scope>>

(* _borrow -> container get -> _get_free_connection, the emptiness check: *)
(* no free item is a miss (PoolIsEmpty, _borrow returns None) unless the  *)
(* get may block.                                                         *)
GetCheck_AlwaysWaits(t) ==
    /\ pc[t] = "get_check"
    /\ pc' = [pc EXCEPT ![t] = IF free_size = 0 THEN "get_wait" ELSE "get_pop"]
    /\ block' = [block EXCEPT ![t] = FALSE]
    /\ UNCHANGED <<max_pool_size, fixed, container, safe_lock,
                   handed, conn, arg, ext_i, scope>>

GetCheck_MissesLast(t) ==
    /\ pc[t] = "get_check"
    /\ pc' = [pc EXCEPT ![t] =
                IF free_size <= 1
                THEN IF block[t] THEN "get_wait" ELSE "b199"
                ELSE "get_pop"]
    /\ block' = [block EXCEPT ![t] = FALSE]
    /\ UNCHANGED <<max_pool_size, fixed, container, safe_lock,
                   handed, conn, arg, ext_i, scope>>

GetCheck(t) ==
    /\ pc[t] = "get_check"
    /\ pc' = [pc EXCEPT ![t] =
                IF free_size = 0
                THEN IF block[t] THEN "get_wait" ELSE "b199"
                ELSE "get_pop"]
    /\ block' = [block EXCEPT ![t] = FALSE]
    /\ UNCHANGED <<max_pool_size, fixed, container, safe_lock,
                   handed, conn, arg, ext_i, scope>>

(* _get_free_connection, the locked section: pop the right end of the     *)
(* deque, append to the busy list, hand the item out.  pop on an empty    *)
(* deque raises IndexError, which nothing on the call chain catches.      *)
PopRaises == free_items = <<>>

PoppedFree_Peek == free_items

PoppedFree == SubSeq(free_items, 1, Len(free_items) - 1)

(* _borrow, line 228: connection.ping(reconnect=True) on the item just    *)
(* taken.  A live connection answers; a dead one is reconnected, which    *)
(* gives the item a new underlying connection, or the reconnect fails     *)
(* and ping raises.                                                       *)
AfterPing(item, reconnected) == alive[item] \/ reconnected

PingRaises_Never(item, reconnected) == FALSE

PingRaises(item, reconnected) == ~AfterPing(item, reconnected)

GetPop(t) ==
    /\ pc[t] = "get_pop"
    /\ IF PopRaises
       THEN /\ Raise(t)
            /\ UNCHANGED <<container, conn, handed, health>>
       ELSE LET item == free_items[Len(free_items)]
            IN  \E reconnected \in BOOLEAN :
                /\ free_items' = PoppedFree
                /\ busy_items' = busy_items \cup {item}
                /\ alive' = [alive EXCEPT ![item] = AfterPing(item, reconnected)]
                /\ gen' = [gen EXCEPT ![item] =
                             IF ~alive[item] /\ reconnected THEN @ + 1 ELSE @]
                /\ IF PingRaises(item, reconnected)
                   THEN /\ Raise(t)
                        /\ UNCHANGED <<conn, handed>>
                   ELSE /\ IF scope[t]
                           THEN /\ conn' = [conn EXCEPT ![t] = item]
                                /\ pc' = [pc EXCEPT ![t] = "c148"]
                                /\ UNCHANGED handed
                           ELSE /\ handed' = [handed EXCEPT ![item] = handed[item] + 1]
                                /\ pc' = [pc EXCEPT ![t] = "idle"]
                                /\ UNCHANGED conn
                        /\ Unlock(t)
                        /\ UNCHANGED scope
                /\ UNCHANGED <<container_max, abandoned>>
    /\ UNCHANGED <<max_pool_size, others, arg, block, ext_i>>

(* container get with block=True: wait until wait_timeout for a free      *)
(* item, then retry once.                                                 *)
GetWake(t) ==
    /\ pc[t] = "get_wait"
    /\ free_size > 0
    /\ pc' = [pc EXCEPT ![t] = "get_check"]
    /\ UNCHANGED <<max_pool_size, fixed, container, safe_lock,
                   handed, locals>>

GetTimeout(t) ==
    /\ pc[t] = "get_wait"
    /\ free_size = 0
    /\ pc' = [pc EXCEPT ![t] = "b199"]
    /\ UNCHANGED <<max_pool_size, fixed, container, safe_lock,
                   handed, conn, arg, block, ext_i, scope>>

(* lines 199-205: room below the ceiling -> fill; no auto-resize -> retry *)
MissCheckSize(t) ==
    /\ pc[t] = "b199"
    /\ IF pool_size < max_pool_size
       THEN /\ pc' = [pc EXCEPT ![t] = "extend"]
            /\ UNCHANGED block
       ELSE IF enable_auto_resize = FALSE
       THEN Recur(t)
       ELSE /\ pc' = [pc EXCEPT ![t] = "b208"]
            /\ UNCHANGED block
    /\ UNCHANGED <<max_pool_size, fixed, container, safe_lock,
                   handed, conn, arg, ext_i, scope>>

(* lines 207-209: at the boundary -> retry, else go on to resize *)
MissCheckBoundary(t) ==
    /\ pc[t] = "b208"
    /\ IF pool_size >= pool_resize_boundary
       THEN Recur(t)
       ELSE /\ pc' = [pc EXCEPT ![t] = "b212"]
            /\ UNCHANGED block
    /\ UNCHANGED <<max_pool_size, fixed, container, safe_lock,
                   handed, conn, arg, ext_i, scope>>

(* line 212: with self.__safe_lock (reentrant) *)
ResizeLock(t) ==
    /\ pc[t] = "b212"
    /\ safe_lock \in {0, t}
    /\ safe_lock' = t
    /\ pc' = [pc EXCEPT ![t] = "b213"]
    /\ UNCHANGED <<max_pool_size, fixed, container, handed, locals>>

(* line 213: self._max_pool_size *= self._auto_resize_scale *)
ScaledCeiling_Assign == auto_resize_scale

ScaledCeiling_Div == max_pool_size \div auto_resize_scale

ScaledCeiling == max_pool_size * auto_resize_scale

ResizeScale(t) ==
    /\ pc[t] = "b213"
    /\ max_pool_size' = ScaledCeiling
    /\ pc' = [pc EXCEPT ![t] = "b214"]
    /\ UNCHANGED <<fixed, container, safe_lock, handed, locals>>

(* lines 214-215: clamp to the boundary *)
ClampedCeiling ==
    IF max_pool_size < pool_resize_boundary THEN max_pool_size
    ELSE pool_resize_boundary

ResizeClamp(t) ==
    /\ pc[t] = "b214"
    /\ max_pool_size' = ClampedCeiling
    /\ pc' = [pc EXCEPT ![t] = "b217"]
    /\ UNCHANGED <<fixed, container, safe_lock, handed, locals>>

(* line 217: publish the ceiling to the container, then fill (line 218) *)
ResizePublish(t) ==
    /\ pc[t] = "b217"
    /\ container_max' = SetCeiling(max_pool_size)
    /\ pc' = [pc EXCEPT ![t] = "extend"]
    /\ UNCHANGED <<max_pool_size, fixed, free_items, busy_items, safe_lock,
                   handed, locals>>

(* --------------------- _extend_connection_pool ------------------------ *)
(* One iteration of `for i in range(self._step_size)`; after the last     *)
(* one, or on `break`, the caller goes on to borrow_connection(True).     *)
ExtendNext(t) ==
    IF ext_i[t] + 1 < step_size
    THEN /\ ext_i' = [ext_i EXCEPT ![t] = ext_i[t] + 1]
         /\ UNCHANGED <<pc, block>>
    ELSE /\ Recur(t)
         /\ ext_i' = [ext_i EXCEPT ![t] = 0]

(* lines 256-263: the connection whose add was refused is not closed by   *)
(* the fill; the name `connection` is dropped with it still open.  The    *)
(* only thing that can close it afterwards is a finalizer of the          *)
(* connection object, run by the garbage collector at a time and on a     *)
(* condition the fill does not control: it has run by the end of the      *)
(* step, or it has not.                                                   *)
Dropped == {abandoned, TRUE}

(* lines 247-252: _create_connection raises, logged, `continue` *)
ExtendCreateFails(t) ==
    /\ pc[t] = "extend"
    /\ ExtendNext(t)
    /\ UNCHANGED <<max_pool_size, fixed, container, safe_lock,
                   handed, conn, arg, scope>>

(* lines 248, 254-263: the connection is created and added; when the      *)
(* container is full the connection is dropped as it is (still open) and  *)
(* the loop ends, with PoolBoundaryExceedsError beyond the boundary.      *)
ExtendAdd_Surfaces(t) ==
    /\ pc[t] = "extend"
    /\ IF AddRejected
       THEN /\ Raise(t)
            /\ ext_i' = [ext_i EXCEPT ![t] = 0]
            /\ abandoned' \in Dropped
            /\ UNCHANGED <<block, free_items>>
       ELSE /\ free_items' = AddItem(pool_size + 1)
            /\ ExtendNext(t)
            /\ UNCHANGED <<scope, safe_lock, abandoned>>
    /\ UNCHANGED <<max_pool_size, others, alive, gen, container_max,
                   busy_items, handed, conn, arg>>

ExtendAdd(t) ==
    /\ pc[t] = "extend"
    /\ IF AddRejected
       THEN /\ IF pool_size > pool_resize_boundary
               THEN /\ Raise(t)
                    /\ UNCHANGED block
               ELSE /\ Recur(t)
                    /\ UNCHANGED <<scope, safe_lock>>
            /\ ext_i' = [ext_i EXCEPT ![t] = 0]
            /\ abandoned' \in Dropped
            /\ UNCHANGED free_items
       ELSE /\ free_items' = AddItem(pool_size + 1)
            /\ ExtendNext(t)
            /\ UNCHANGED <<scope, safe_lock, abandoned>>
    /\ UNCHANGED <<max_pool_size, others, alive, gen, container_max,
                   busy_items, handed, conn, arg>>

(* ------------------------ return_connection --------------------------- *)
(* a caller gives back a connection it was handed *)
ReturnStart(t) ==
    /\ pc[t] = "idle"
    /\ \E item \in Items :
          /\ handed[item] > 0
          /\ handed' = [handed EXCEPT ![item] = handed[item] - 1]
          /\ arg' = [arg EXCEPT ![t] = item]
    /\ pc' = [pc EXCEPT ![t] = "r216"]
    /\ UNCHANGED <<max_pool_size, fixed, container, safe_lock,
                   conn, block, ext_i, scope>>

(* a caller hands in a connection the pool never issued *)
ForeignReturnStart(t) ==
    /\ pc[t] = "idle"
    /\ arg' = [arg EXCEPT ![t] = ForeignConn]
    /\ pc' = [pc EXCEPT ![t] = "r216"]
    /\ UNCHANGED <<max_pool_size, fixed, container, safe_lock,
                   handed, conn, block, ext_i, scope>>

(* The call ends with the item not taken back: a caller keeps it, the     *)
(* connection() helper has no further use for it.                         *)
KeptByCaller(t) ==
    IF arg[t] \in Items /\ ~scope[t]
    THEN handed' = [handed EXCEPT ![arg[t]] = handed[arg[t]] + 1]
    ELSE UNCHANGED handed

(* lines 216-218: a return into a pool that is at its ceiling is refused  *)
(* (warning, return False)                                                *)
ReturnRefused_Never == FALSE

ReturnRefused == pool_size = container_max

ReturnCheck(t) ==
    /\ pc[t] = "r216"
    /\ IF ReturnRefused
       THEN /\ pc' = [pc EXCEPT ![t] = "idle"]
            /\ scope' = [scope EXCEPT ![t] = FALSE]
            /\ arg' = [arg EXCEPT ![t] = 0]
            /\ conn' = [conn EXCEPT ![t] = 0]
            /\ KeptByCaller(t)
       ELSE /\ pc' = [pc EXCEPT ![t] = "r221"]
            /\ UNCHANGED <<scope, arg, conn, handed>>
    /\ UNCHANGED <<max_pool_size, fixed, container, safe_lock, block, ext_i>>

(* lines 221-226, under the pool lock: list.remove raises ValueError for  *)
(* an item that is not busy; otherwise the item goes to the left end of   *)
(* the deque.  The call returns None.                                     *)
RemoveRaises(item) == item \notin busy_items

ReturnLocked(t) ==
    /\ pc[t] = "r221"
    /\ IF RemoveRaises(arg[t])
       THEN /\ KeptByCaller(t)
            /\ UNCHANGED container
       ELSE /\ busy_items' = busy_items \ {arg[t]}
            /\ free_items' = <<arg[t]>> \o free_items
            /\ UNCHANGED <<container_max, handed>>
    /\ pc' = [pc EXCEPT ![t] = "idle"]
    /\ scope' = [scope EXCEPT ![t] = FALSE]
    /\ arg' = [arg EXCEPT ![t] = 0]
    /\ conn' = [conn EXCEPT ![t] = 0]
    /\ UNCHANGED <<max_pool_size, fixed, safe_lock, block, ext_i>>

(* ------------------------------ Next ---------------------------------- *)
Calls(t) ==
    \/ GetCheck(t)
    \/ GetPop(t)
    \/ GetWake(t)
    \/ GetTimeout(t)
    \/ MissCheckSize(t)
    \/ MissCheckBoundary(t)
    \/ ResizeLock(t)
    \/ ResizeScale(t)
    \/ ResizeClamp(t)
    \/ ResizePublish(t)
    \/ ExtendCreateFails(t)
    \/ ExtendAdd(t)
    \/ ReturnCheck(t)
    \/ ReturnLocked(t)

Next ==
    \E t \in Threads :
        \/ BorrowStart(t)
        \/ ReturnStart(t)
        \/ ForeignReturnStart(t)
        \/ Calls(t)

Spec == Init /\ [][Next]_vars

(* Fairness: a thread that is inside a call keeps running; nothing makes  *)
(* a caller start a call.                                                 *)
FairSpec == Spec /\ \A t \in Threads : WF_vars(Calls(t))

(* -------------------- the connection() helper ------------------------- *)
(* line 145: conn = self.borrow_connection() *)
ScopeStart(t) ==
    /\ pc[t] = "idle"
    /\ scope' = [scope EXCEPT ![t] = TRUE]
    /\ pc' = [pc EXCEPT ![t] = "get_check"]
    /\ block' = [block EXCEPT ![t] = FALSE]
    /\ UNCHANGED <<max_pool_size, fixed, container, safe_lock, handed,
                   conn, arg, ext_i>>

(* lines 147-148: get_autocommit and autocommit(autocommit) succeed *)
ScopeEnter(t) ==
    /\ pc[t] = "c148"
    /\ pc' = [pc EXCEPT ![t] = "c150"]
    /\ UNCHANGED <<max_pool_size, fixed, container, safe_lock, handed,
                   locals>>

(* The helper is left by an exception with return_connection not run:     *)
(* the connection stays busy and nobody holds it any more.                *)
ScopeAbandon(t) ==
    /\ pc' = [pc EXCEPT ![t] = "idle"]
    /\ conn' = [conn EXCEPT ![t] = 0]
    /\ scope' = [scope EXCEPT ![t] = FALSE]
    /\ UNCHANGED <<max_pool_size, fixed, container, safe_lock, handed,
                   arg, block, ext_i>>

(* line 148: conn.autocommit(autocommit) raises, before the try block *)
ScopeEnterFails(t) ==
    /\ pc[t] = "c148"
    /\ ScopeAbandon(t)

(* lines 149-152: the body of the with block ends, normally or by an      *)
(* exception, which is logged and swallowed; the finally block follows.   *)
ScopeBody(t) ==
    /\ pc[t] = "c150"
    /\ pc' = [pc EXCEPT ![t] = "c154"]
    /\ UNCHANGED <<max_pool_size, fixed, container, safe_lock, handed,
                   locals>>

(* lines 154-155: conn.autocommit(old_value) succeeds, then               *)
(* self.return_connection(conn)                                           *)
ScopeExit(t) ==
    /\ pc[t] = "c154"
    /\ arg' = [arg EXCEPT ![t] = conn[t]]
    /\ pc' = [pc EXCEPT ![t] = "r216"]
    /\ UNCHANGED <<max_pool_size, fixed, container, safe_lock, handed,
                   conn, block, ext_i, scope>>

(* line 154: conn.autocommit(old_value) raises inside the finally block *)
ScopeExitFails(t) ==
    /\ pc[t] = "c154"
    /\ ScopeAbandon(t)

NextScope ==
    \E t \in Threads :
        \/ ScopeStart(t)
        \/ ScopeEnter(t)
        \/ ScopeEnterFails(t)
        \/ ScopeBody(t)
        \/ ScopeExit(t)
        \/ ScopeExitFails(t)
        \/ Calls(t)

SpecScope == Init /\ [][NextScope]_vars

(* ------------- three borrows on a freshly connected pool -------------- *)
(* max_pool_size 2, step_size 2, pool_resize_boundary 4, auto-resize on   *)
(* with scale 2.0; the factory works, nothing is returned, and the       *)
(* callers issue MaxBorrows borrows: three at once, then one more.        *)
MaxBorrows == 4
HandedCount == handed[1] + handed[2] + handed[3] + handed[4]
InFlight(T) == Cardinality({t \in T : pc[t] # "idle"})

InitThree ==
    /\ InitManager({2}, {2}, {TRUE}, {4}, {20}, {FALSE})
    /\ InitThreads(ThreeThreads)

BorrowStartThree(t) ==
    /\ HandedCount + InFlight(ThreeThreads) < MaxBorrows
    /\ BorrowStart(t)

NextThree ==
    \E t \in ThreeThreads :
        \/ BorrowStartThree(t)
        \/ GetCheck(t)
        \/ GetPop(t)
        \/ MissCheckSize(t)
        \/ MissCheckBoundary(t)
        \/ ResizeLock(t)
        \/ ResizeScale(t)
        \/ ResizeClamp(t)
        \/ ResizePublish(t)
        \/ ExtendAdd(t)

SpecThree == InitThree /\ [][NextThree]_vars

(* ------------------------------ close() ------------------------------- *)
(* line 178: close() is called *)
CloseStart(t) ==
    /\ pc[t] = "idle"
    /\ pc' = [pc EXCEPT ![t] = "k181"]
    /\ UNCHANGED <<max_pool_size, fixed, container, safe_lock, handed,
                   locals>>

(* lines 181-183: under the lock, return True when already killed; the    *)
(* lock is released before _free() is called.                             *)
CloseCheck(t) ==
    /\ pc[t] = "k181"
    /\ safe_lock \in {0, t}
    /\ pc' = [pc EXCEPT ![t] = IF is_killed THEN "idle" ELSE "k185"]
    /\ UNCHANGED <<max_pool_size, fixed, container, safe_lock, handed,
                   locals>>

(* PoolContainer.__iter__: the busy items, then the free items, yielded   *)
(* while the container's lock is held.                                    *)
CloseTargets_FreeOnly == SeqToSet(free_items)

CloseTargets == busy_items \cup SeqToSet(free_items)

(* lines 185, 265-273: _free() calls close() on every item the container  *)
(* yields; an exception of one close() is swallowed and the loop goes on. *)
(* The items in failing are those whose close() raised: none, or one.     *)
CloseFailures == {{}} \cup {{e} : e \in CloseTargets}

CloseFree(t) ==
    /\ pc[t] = "k185"
    /\ \E failing \in CloseFailures :
          /\ closed' = [e \in Items |->
                          IF e \in CloseTargets THEN closed[e] + 1
                          ELSE closed[e]]
          /\ alive' = [e \in Items |->
                          IF e \in CloseTargets \ failing THEN FALSE
                          ELSE alive[e]]
    /\ pc' = [pc EXCEPT ![t] = "k187"]
    /\ UNCHANGED <<max_pool_size, config, is_killed, is_connected, gen,
                   abandoned, registry, args, tx, test_conn,
                   container, safe_lock, handed, locals>>

(* lines 187-188: under the lock, self.__is_killed = True *)
CloseMark(t) ==
    /\ pc[t] = "k187"
    /\ safe_lock \in {0, t}
    /\ is_killed' = TRUE
    /\ pc' = [pc EXCEPT ![t] = "idle"]
    /\ UNCHANGED <<max_pool_size, config, is_connected, closed, health,
                   registry, args, tx, test_conn,
                   container, safe_lock, handed, locals>>

CloseCalls(t) ==
    \/ CloseStart(t)
    \/ CloseCheck(t)
    \/ CloseFree(t)
    \/ CloseMark(t)

(* A connected pool of two connections under a ceiling of three, that is  *)
(* borrowed from, returned to and closed by concurrent threads.  A borrow *)
(* that misses is not followed beyond line 199 here.                      *)
InitClose ==
    /\ InitManager({3}, {2}, {FALSE}, {4}, {10}, {FALSE})
    /\ InitThreads(Threads)

NextClose ==
    \E t \in Threads :
        \/ CloseCalls(t)
        \/ BorrowStart(t)
        \/ GetCheck(t)
        \/ GetPop(t)
        \/ ReturnStart(t)
        \/ ReturnCheck(t)
        \/ ReturnLocked(t)

SpecClose == InitClose /\ [][NextClose]_vars

(* Pools, connected or not, when every borrow is issued after a close()   *)
(* has completed.                                                         *)
InitClosed ==
    /\ InitManager(MaxPoolSizes, StepSizes, {FALSE}, {4}, {10}, BOOLEAN)
    /\ InitThreads(Threads)

BorrowStartClosed(t) ==
    /\ is_killed
    /\ BorrowStart(t)

NextClosed ==
    \E t \in Threads :
        \/ CloseCalls(t)
        \/ BorrowStartClosed(t)
        \/ GetCheck(t)
        \/ GetPop(t)
        \/ GetWake(t)
        \/ GetTimeout(t)
        \/ MissCheckSize(t)
        \/ ExtendAdd(t)

SpecClosed == InitClosed /\ [][NextClosed]_vars

(* ----------------------- connections that die ------------------------- *)
(* The server, or the network, kills the underlying connection of an      *)
(* entry that sits in the free deque.  MaxGen bounds the underlying       *)
(* connections one entry goes through.                                    *)
MaxGen == 2
MaxBatch == 2

KillFree(item) ==
    /\ item \in SeqToSet(free_items)
    /\ alive[item]
    /\ gen[item] < MaxGen
    /\ alive' = [alive EXCEPT ![item] = FALSE]
    /\ UNCHANGED <<max_pool_size, others, gen, abandoned, container,
                   safe_lock, handed, pc, locals>>

(* A connected pool of two connections under a ceiling of three, borrowed *)
(* from and returned to while free connections die.  A borrow that misses *)
(* is not followed beyond line 199 here.                                  *)
NextPing ==
    \/ \E item \in Items : KillFree(item)
    \/ \E t \in Threads :
          \/ BorrowStart(t)
          \/ GetCheck(t)
          \/ GetPop(t)
          \/ ReturnStart(t)
          \/ ReturnCheck(t)
          \/ ReturnLocked(t)

SpecPing == InitClose /\ [][NextPing]_vars

(* ------------------- ConnectionPool(), the registry ------------------- *)
(* A manager is identified by the call that constructed it.               *)
ManagerId(t, name) == 2 * t + (IF name = "a" THEN 0 ELSE 1)

(* lines 14-18: pool_name is taken from the arguments *)
RegStart(t) ==
    /\ pc[t] = "idle"
    /\ \E name \in PoolNames :
          reg' = [reg EXCEPT ![t] = [name |-> name, pool |-> 0]]
    /\ pc' = [pc EXCEPT ![t] = "g20"]
    /\ UNCHANGED <<max_pool_size, config, lifecycle, health, instances, args,
                   tx, test_conn, container, safe_lock, handed, locals>>

(* line 20: if pool_name not in _instances *)
RegCheck(t) ==
    /\ pc[t] = "g20"
    /\ pc' = [pc EXCEPT ![t] =
                IF instances[reg[t].name] = 0 THEN "g21" ELSE "g22"]
    /\ UNCHANGED <<max_pool_size, fixed, container, safe_lock, handed,
                   locals>>

(* line 21, right-hand side: the MySQLConnectionPool is constructed *)
RegConstruct(t) ==
    /\ pc[t] = "g21"
    /\ reg' = [reg EXCEPT ![t].pool = ManagerId(t, reg[t].name)]
    /\ pc' = [pc EXCEPT ![t] = "g21s"]
    /\ UNCHANGED <<max_pool_size, config, lifecycle, health, instances, args,
                   tx, test_conn, container, safe_lock, handed, locals>>

(* line 21, the store: _instances[pool_name] = ... *)
RegStore(t) ==
    /\ pc[t] = "g21s"
    /\ instances' = [instances EXCEPT ![reg[t].name] = reg[t].pool]
    /\ pc' = [pc EXCEPT ![t] = "g22"]
    /\ UNCHANGED <<max_pool_size, config, lifecycle, health, reg, args,
                   tx, test_conn, container, safe_lock, handed, locals>>

(* lines 22-24: pool = _instances[pool_name]; return pool *)
RegReturn(t) ==
    /\ pc[t] = "g22"
    /\ reg' = [reg EXCEPT ![t] = NoCall]
    /\ pc' = [pc EXCEPT ![t] = "idle"]
    /\ UNCHANGED <<max_pool_size, config, lifecycle, health, instances, args,
                   tx, test_conn, container, safe_lock, handed, locals>>

NextRegistry ==
    \E t \in Threads :
        \/ RegStart(t)
        \/ RegCheck(t)
        \/ RegConstruct(t)
        \/ RegStore(t)
        \/ RegReturn(t)

SpecRegistry == InitClose /\ [][NextRegistry]_vars

(* ------------------------------ connect ------------------------------- *)
ConnectStart(t) ==
    /\ pc[t] = "idle"
    /\ pc' = [pc EXCEPT ![t] = "c160"]
    /\ UNCHANGED <<max_pool_size, fixed, container, safe_lock, handed,
                   locals>>

(* lines 160-161: `if self.__is_connected: return`, read without the lock *)
ConnectCheck(t) ==
    /\ pc[t] = "c160"
    /\ pc' = [pc EXCEPT ![t] = IF is_connected THEN "idle" ELSE "c165"]
    /\ UNCHANGED <<max_pool_size, fixed, container, safe_lock, handed,
                   locals>>

(* lines 165-169, 175-176: the throwaway connection is created and        *)
(* pinged.  "refused": _create_connection raises, there is no connection. *)
(* "dead": ping raises, the finally clause closes the connection and the  *)
(* error leaves connect().  "ok": the else clause is entered.             *)
ProbeOutcomes == {"refused", "dead", "ok"}

ConnectProbe(t) ==
    /\ pc[t] = "c165"
    /\ \E outcome \in ProbeOutcomes :
          /\ test_conn' = [test_conn EXCEPT ![t] =
                             CASE outcome = "refused" -> "none"
                               [] outcome = "dead" -> "closed"
                               [] OTHER -> "open"]
          /\ pc' = [pc EXCEPT ![t] = IF outcome = "ok" THEN "c171"
                                     ELSE "idle"]
    /\ UNCHANGED <<max_pool_size, config, lifecycle, health, registry, args,
                   tx, container, safe_lock, handed, locals>>

(* lines 171-172: with self.__safe_lock: self.__is_connected = True *)
ConnectMark(t) ==
    /\ pc[t] = "c171"
    /\ safe_lock \in {0, t}
    /\ is_connected' = TRUE
    /\ pc' = [pc EXCEPT ![t] = "c174"]
    /\ UNCHANGED <<max_pool_size, config, is_killed, closed, health, registry,
                   args, tx, test_conn, container, safe_lock, handed, locals>>

(* line 174: _extend_connection_pool(), one iteration of its loop (lines  *)
(* 246-263) per step: the connection is not created (`continue`), or it   *)
(* is added, or the container is full and the loop ends, by `break` or by *)
(* PoolBoundaryExceedsError; then the finally clause is run.              *)
ConnectFillNext(t) ==
    IF ext_i[t] + 1 < step_size
    THEN /\ ext_i' = [ext_i EXCEPT ![t] = ext_i[t] + 1]
         /\ UNCHANGED pc
    ELSE /\ ext_i' = [ext_i EXCEPT ![t] = 0]
         /\ pc' = [pc EXCEPT ![t] = "c176"]

ConnectFill(t) ==
    /\ pc[t] = "c174"
    /\ \E created \in BOOLEAN :
          IF created /\ ~AddRejected
          THEN /\ free_items' = AddItem(pool_size + 1)
               /\ ConnectFillNext(t)
               /\ UNCHANGED abandoned
          ELSE IF created
          THEN /\ ext_i' = [ext_i EXCEPT ![t] = 0]
               /\ pc' = [pc EXCEPT ![t] = "c176"]
               /\ abandoned' \in Dropped
               /\ UNCHANGED free_items
          ELSE /\ ConnectFillNext(t)
               /\ UNCHANGED <<free_items, abandoned>>
    /\ UNCHANGED <<max_pool_size, others, alive, gen, container_max,
                   busy_items, safe_lock, handed, conn, arg, block, scope>>

(* lines 175-176: finally: test_conn.close() *)
ConnectClose(t) ==
    /\ pc[t] = "c176"
    /\ test_conn' = [test_conn EXCEPT ![t] = "closed"]
    /\ pc' = [pc EXCEPT ![t] = "idle"]
    /\ UNCHANGED <<max_pool_size, config, lifecycle, health, registry, args,
                   tx, container, safe_lock, handed, locals>>

ConnectCalls(t) ==
    \/ ConnectStart(t)
    \/ ConnectCheck(t)
    \/ ConnectProbe(t)
    \/ ConnectMark(t)
    \/ ConnectFill(t)
    \/ ConnectClose(t)

(* connect() calls on managers that were constructed with                 *)
(* defer_connect_pool                                                     *)
InitConnect ==
    /\ InitManager(MaxPoolSizes, StepSizes, {FALSE}, {4}, {10}, {TRUE})
    /\ InitThreads(Threads)

NextConnect == \E t \in Threads : ConnectCalls(t)

SpecConnect == InitConnect /\ [][NextConnect]_vars

(* --------------------------- construction ----------------------------- *)
(* The state before MySQLConnectionPool(...) has run: the caller has the  *)
(* arguments (the scale in tenths), there is no manager yet, and every    *)
(* thread waits for it at "new".                                          *)
InvalidScale == 5
ConstructScales == ScaleTenths \cup {InvalidScale}

InitConstruct ==
    /\ args \in [max_pool_size : MaxPoolSizes, step_size : StepSizes,
                 enable_auto_resize : {TRUE},
                 auto_resize_scale : ConstructScales,
                 pool_resize_boundary : Boundaries,
                 defer_connect_pool : {FALSE}]
    /\ max_pool_size = 0
    /\ step_size = 0
    /\ enable_auto_resize = FALSE
    /\ pool_resize_boundary = 0
    /\ auto_resize_scale = 0
    /\ container_max = 0
    /\ free_items = <<>>
    /\ busy_items = {}
    /\ safe_lock = 0
    /\ handed = [e \in Items |-> 0]
    /\ is_killed = FALSE
    /\ is_connected = FALSE
    /\ closed = [e \in Items |-> 0]
    /\ alive = [e \in Items |-> TRUE]
    /\ gen = [e \in Items |-> 1]
    /\ abandoned = FALSE
    /\ instances = [n \in PoolNames |-> 0]
    /\ pc = [t \in Threads |-> "new"]
    /\ conn = [t \in Threads |-> 0]
    /\ arg = [t \in Threads |-> 0]
    /\ block = [t \in Threads |-> FALSE]
    /\ ext_i = [t \in Threads |-> 0]
    /\ scope = [t \in Threads |-> FALSE]
    /\ reg = [t \in Threads |-> NoCall]
    /\ tx = [t \in Threads |-> NoTx]
    /\ test_conn = [t \in Threads |-> "none"]

(* lines 84-86: if auto_resize_scale < 1: raise ValueError *)
ScaleRejected == args.auto_resize_scale < 10

(* MySQLConnectionPool.__init__, lines 78-97.  Nothing in it compares     *)
(* max_pool_size with the boundary other than the clamp of line 78.  The  *)
(* connect() of line 97 runs before any other thread has the manager.     *)
Construct ==
    /\ \A t \in Threads : pc[t] = "new"
    /\ IF ScaleRejected
       THEN /\ pc' = [t \in Threads |-> "failed"]
            /\ max_pool_size' = InitCeiling(args.max_pool_size,
                                            args.pool_resize_boundary)
            /\ step_size' = args.step_size
            /\ enable_auto_resize' = args.enable_auto_resize
            /\ pool_resize_boundary' = args.pool_resize_boundary
            /\ UNCHANGED <<auto_resize_scale, container_max, free_items,
                           is_connected>>
       ELSE /\ pc' = [t \in Threads |-> "idle"]
            /\ max_pool_size' = InitCeiling(args.max_pool_size,
                                            args.pool_resize_boundary)
            /\ step_size' = args.step_size
            /\ enable_auto_resize' = args.enable_auto_resize
            /\ pool_resize_boundary' = args.pool_resize_boundary
            /\ auto_resize_scale' = IntRound(args.auto_resize_scale)
            /\ container_max' = max_pool_size'
            /\ is_connected' = ~args.defer_connect_pool
            /\ free_items' = IF args.defer_connect_pool THEN <<>>
                             ELSE InitialFill(Min(step_size', max_pool_size'))
    /\ UNCHANGED <<is_killed, closed, health, registry, args, tx, test_conn,
                   busy_items, safe_lock, handed, locals>>

NextConstruct == Construct \/ Next

SpecConstruct == InitConstruct /\ [][NextConstruct]_vars

(* ------------------------- PoolCursor.transact ------------------------ *)
(* tx[t] is the transact() call of the cursor of thread t: the connection *)
(* of the cursor, the statements still to execute, whether begin has      *)
(* succeeded, whether a statement has failed, the commits and rollbacks   *)
(* issued on the                                                          *)
(* connection, and whether the call ended by an exception.  The cursor's  *)
(* connection (self._conn) is one the pool has handed out.                *)
TransactStart(t) ==
    /\ pc[t] = "idle"
    /\ \E item \in Items, n \in 0..MaxBatch :
          /\ handed[item] > 0
          /\ tx' = [tx EXCEPT ![t] = [conn |-> item, left |-> n,
                                      begun |-> FALSE,
                                      failed |-> FALSE, commits |-> 0,
                                      rollbacks |-> 0, raised |-> FALSE]]
    /\ pc' = [pc EXCEPT ![t] = "t118"]
    /\ UNCHANGED <<max_pool_size, config, lifecycle, health, registry, args,
                   test_conn, container, safe_lock, handed, locals>>

(* line 118: self.connection.begin() *)
TransactBegin(t) ==
    /\ pc[t] = "t118"
    /\ \E ok \in BOOLEAN :
          /\ tx' = [tx EXCEPT ![t].begun = ok]
          /\ pc' = [pc EXCEPT ![t] = IF ok THEN "t121" ELSE "t129"]
    /\ UNCHANGED <<max_pool_size, config, lifecycle, health, registry, args,
                   test_conn, container, safe_lock, handed, locals>>

(* lines 121-125: the next statement of the batch is executed; the loop   *)
(* ends when none is left, and is left by the exception of a statement    *)
(* that fails.                                                            *)
TransactExecute(t) ==
    /\ pc[t] = "t121"
    /\ IF tx[t].left = 0
       THEN /\ pc' = [pc EXCEPT ![t] = "t127"]
            /\ UNCHANGED tx
       ELSE \E ok \in BOOLEAN :
               /\ tx' = [tx EXCEPT ![t].left = IF ok THEN @ - 1 ELSE @,
                                   ![t].failed = ~ok]
               /\ pc' = [pc EXCEPT ![t] = IF ok THEN "t121" ELSE "t129"]
    /\ UNCHANGED <<max_pool_size, config, lifecycle, health, registry, args,
                   test_conn, container, safe_lock, handed, locals>>

(* line 127: self.connection.commit(); when it raises, the except clause  *)
(* is entered as for a statement.                                         *)
TransactCommit(t) ==
    /\ pc[t] = "t127"
    /\ \E ok \in BOOLEAN :
          /\ tx' = [tx EXCEPT ![t].commits = @ + 1]
          /\ pc' = [pc EXCEPT ![t] = IF ok THEN "idle" ELSE "t129"]
    /\ UNCHANGED <<max_pool_size, config, lifecycle, health, registry, args,
                   test_conn, container, safe_lock, handed, locals>>

(* lines 128-130: except Exception: the error is logged and the           *)
(* connection rolled back; the clause does not raise again, so the call   *)
(* ends by an exception only when the rollback itself raises.             *)
TransactRollback(t) ==
    /\ pc[t] = "t129"
    /\ \E ok \in BOOLEAN :
          tx' = [tx EXCEPT ![t].rollbacks = @ + 1,
                           ![t].raised = ~ok]
    /\ pc' = [pc EXCEPT ![t] = "idle"]
    /\ UNCHANGED <<max_pool_size, config, lifecycle, health, registry, args,
                   test_conn, container, safe_lock, handed, locals>>

TransactCalls(t) ==
    \/ TransactStart(t)
    \/ TransactBegin(t)
    \/ TransactExecute(t)
    \/ TransactCommit(t)
    \/ TransactRollback(t)

NextTransact ==
    \E t \in Threads :
        \/ TransactCalls(t)
        \/ BorrowStart(t)
        \/ GetCheck(t)
        \/ GetPop(t)

SpecTransact == InitClose /\ [][NextTransact]_vars

(* ------------- borrow-then-return cycles of one thread ---------------- *)
(* test_borrow_return_connections: one thread runs                        *)
(* `with pool.connection() as connection` again and again on a connected  *)
(* pool; the factory works and no autocommit call fails.                  *)
OneThread == {1}

InitCycle ==
    /\ InitManager(MaxPoolSizes, StepSizes, BOOLEAN, Boundaries, ScaleTenths,
                   {FALSE})
    /\ InitThreads(OneThread)

NextCycle ==
    \E t \in OneThread :
        \/ ScopeStart(t)
        \/ ScopeEnter(t)
        \/ ScopeBody(t)
        \/ ScopeExit(t)
        \/ GetCheck(t)
        \/ GetPop(t)
        \/ GetTimeout(t)
        \/ MissCheckSize(t)
        \/ MissCheckBoundary(t)
        \/ ResizeLock(t)
        \/ ResizeScale(t)
        \/ ResizeClamp(t)
        \/ ResizePublish(t)
        \/ ExtendAdd(t)
        \/ ReturnCheck(t)
        \/ ReturnLocked(t)

SpecCycle == InitCycle /\ [][NextCycle]_vars

(* --------------- more workers than entries, one cycle each ------------ *)
(* test_with_multi_threading: every worker runs one                       *)
(* `with pool.connection()` block, and all of them have called            *)
(* borrow_connection.  The pool has two entries for three workers: its    *)
(* ceiling is 2, or it is 3 and the factory may fail.  No autocommit call *)
(* fails.                                                                 *)
InitWorkers ==
    /\ InitManager(MaxPoolSizes, StepSizes, {FALSE}, {4}, {10}, {FALSE})
    /\ pc = [t \in ThreeThreads |-> "get_check"]
    /\ scope = [t \in ThreeThreads |-> TRUE]
    /\ conn = [t \in ThreeThreads |-> 0]
    /\ arg = [t \in ThreeThreads |-> 0]
    /\ block = [t \in ThreeThreads |-> FALSE]
    /\ ext_i = [t \in ThreeThreads |-> 0]
    /\ reg = [t \in ThreeThreads |-> NoCall]
    /\ tx = [t \in ThreeThreads |-> NoTx]
    /\ test_conn = [t \in ThreeThreads |-> "none"]

WorkerCalls(t) ==
    \/ GetCheck(t)
    \/ GetPop(t)
    \/ GetWake(t)
    \/ GetTimeout(t)
    \/ MissCheckSize(t)
    \/ ExtendCreateFails(t)
    \/ ExtendAdd(t)
    \/ ScopeEnter(t)
    \/ ScopeBody(t)
    \/ ScopeExit(t)
    \/ ReturnCheck(t)
    \/ ReturnLocked(t)

NextWorkers == \E t \in ThreeThreads : WorkerCalls(t)

SpecWorkers == InitWorkers /\ [][NextWorkers]_vars

(* Fairness: every worker that can take a step keeps running. *)
FairWorkers == SpecWorkers /\ \A t \in ThreeThreads : WF_vars(WorkerCalls(t))

(* ============================ properties ============================== *)
ReturnPcs == {"r216", "r221"}
BorrowPcs == {"get_check", "get_pop", "get_wait", "b199", "b208", "b212",
              "b213", "b214", "b217", "extend"}

(* the callers that hold item: those it was handed to, a return of it in  *)
(* progress, and a connection() scope using it                            *)
Holders(item) ==
    handed[item]
    + Cardinality({t \in DOMAIN pc : pc[t] \in ReturnPcs /\ arg[t] = item})
    + Cardinality({t \in DOMAIN pc : pc[t] \notin ReturnPcs /\ conn[t] = item})

(* C1: no entry is held by two borrowers at once, an entry that is held   *)
(* is busy, and every entry the pool tracks is in exactly one of the free *)
(* queue and the busy set, the free queue holding no entry twice.         *)
C1_ExclusiveEntries ==
    /\ \A item \in Items : Holders(item) <= 1
    /\ \A item \in Items : Holders(item) = 1 => item \in busy_items
    /\ SeqToSet(free_items) \cap busy_items = {}
    /\ Cardinality(SeqToSet(free_items)) = Len(free_items)
    /\ SeqToSet(free_items) \cup busy_items = 1..pool_size

C1_Witness ==
    \E t, u \in Threads, item \in Items :
        /\ pc[t] = "get_pop"
        /\ pc[u] = "r221"
        /\ arg[u] \in busy_items
        /\ handed[item] = 1
        /\ free_items # <<>>

(* C2: the number of entries, free plus busy, never exceeds the current   *)
(* ceiling, the container's and the manager's max_pool_size.              *)
C2_SizeWithinCeiling ==
    /\ pool_size <= container_max
    /\ pool_size <= max_pool_size

C2_Witness ==
    \E t \in Threads :
        /\ pc[t] = "extend"
        /\ AddRejected
        /\ free_size = 0

(* C3: the ceiling, the manager's max_pool_size and the container's, is   *)
(* at most pool_resize_boundary in every reachable state.                 *)
C3_CeilingWithinBoundary ==
    /\ max_pool_size <= pool_resize_boundary
    /\ container_max <= pool_resize_boundary

C5_Scenario ==
    /\ ~enable_auto_resize
    /\ max_pool_size = 2
    /\ pool_resize_boundary = 2

C5_BlockedPcs == {"get_check", "get_wait", "b199"}

C5_BlocksUntilReturn ==
    [][\A t \in Threads :
          /\ (/\ C5_Scenario
              /\ handed[1] = 1 /\ handed[2] = 1
              /\ handed'[1] = 1 /\ handed'[2] = 1
              /\ pc[t] = "get_wait")
             => pc'[t] \in C5_BlockedPcs
          /\ (/\ C5_Scenario
              /\ pc[t] \in ReturnPcs
              /\ arg[t] \in Items
              /\ pc'[t] = "idle")
             => arg[t] \in SeqToSet(free_items')]_vars

(* C6: max_pool_size 2, step_size 2, pool_resize_boundary 4, auto-resize  *)
(* on with scale 2: three concurrent borrows with no returns all succeed  *)
(* with distinct entries, none fails or waits for the timeout, and the    *)
(* pool has grown to exactly 4 entries.                                   *)
C6_ThreeBorrowsGrowToFour ==
    /\ [][\A t \in ThreeThreads :
             (pc[t] = "get_pop" /\ pc'[t] # "get_pop") => ~PopRaises]_vars
    /\ [](\A t \in ThreeThreads : pc[t] # "get_wait")
    /\ [](\A item \in Items : handed[item] <= 1)
    /\ [](HandedCount = 3 => pool_size = 4)

(* C7: every borrow_connection call terminates: it returns a connection   *)
(* or raises; it never retries without bound.                             *)
C7_BorrowTerminates ==
    \A t \in Threads : (pc[t] \in BorrowPcs) ~> (pc[t] = "idle")

(* C8: a non-blocking container get on an empty free queue misses at      *)
(* once: it does not wait, and the free queue, the busy set and the       *)
(* ceilings are unchanged.                                                *)
C8_NonBlockingMiss ==
    [][\A t \in Threads :
          (/\ pc[t] = "get_check"
           /\ ~block[t]
           /\ free_size = 0
           /\ pc'[t] # "get_check")
          => /\ pc'[t] = "b199"
             /\ UNCHANGED <<free_items, busy_items, container_max,
                            max_pool_size>>]_vars

C8_Witness ==
    \E t \in Threads :
        /\ pc[t] = "b199"
        /\ ~block[t]
        /\ free_size = 0
        /\ busy_items # {}
        /\ pool_size = container_max

(* C9: returning a connection that is not a busy entry of the pool is     *)
(* rejected without raising, and leaves the free queue, the busy set and  *)
(* the size unchanged.                                                    *)
C9_ForeignReturnRejected ==
    [][\A t \in Threads :
          (/\ pc[t] \in ReturnPcs
           /\ arg[t] \notin busy_items
           /\ pc'[t] = "idle")
          => /\ ~(pc[t] = "r221" /\ RemoveRaises(arg[t]))
             /\ UNCHANGED <<free_items, busy_items>>]_vars

(* C10: when a connection() scope that was entered is left, by whatever   *)
(* path, its connection has been returned: it is in the free queue and    *)
(* no longer busy.                                                        *)
C10_ScopePcs == {"c150", "c154", "r216", "r221"}

C10_ScopeExitReturns ==
    [][\A t \in Threads :
          (/\ scope[t]
           /\ pc[t] \in C10_ScopePcs
           /\ ~scope'[t])
          => /\ conn[t] \in SeqToSet(free_items')
             /\ conn[t] \notin busy_items']_vars

(* C11: close() is idempotent: whether a second close() follows the first *)
(* or runs concurrently with it, no entry's close() is invoked more than  *)
(* once over the pool's lifetime.                                         *)
C11_CloseOnce == \A e \in Items : closed[e] <= 1

(* C12: close() attempts to close every tracked entry, free and busy      *)
(* alike, whichever closes fail; it never ends by an exception, and when  *)
(* it returns the manager is marked killed.                               *)
ClosePcs == {"k181", "k185", "k187"}

C12_CloseAllEntries ==
    [][\A t \in Threads :
          /\ (pc[t] = "k185" /\ pc'[t] # "k185")
             => /\ pc'[t] = "k187"
                /\ \A e \in 1..pool_size : closed'[e] = closed[e] + 1
          /\ (pc[t] \in ClosePcs /\ pc'[t] = "idle")
             => is_killed']_vars

C12_Witness ==
    /\ is_killed
    /\ \E e \in busy_items : closed[e] = 1 /\ alive[e]
    /\ \E e \in SeqToSet(free_items) : closed[e] = 1 /\ ~alive[e]

(* C13: once close() has completed, no later borrow_connection hands out  *)
(* a connection, adds a connection to the pool or reopens a closed entry. *)
C13_NoBorrowAfterClose ==
    [][is_killed =>
          /\ \A e \in Items : handed'[e] <= handed[e]
          /\ pool_size' <= pool_size
          /\ \A e \in Items : alive'[e] => alive[e]]_vars

(* C14: every connection handed to a caller is live at handover; an entry *)
(* whose underlying connection died while it was free is handed out only  *)
(* after a reconnect, as the same entry with a new underlying connection. *)
C14_LiveAtHandover ==
    [][\A item \in Items :
          handed'[item] > handed[item]
          => /\ alive'[item]
             /\ ~alive[item] => gen'[item] = gen[item] + 1]_vars

C14_Witness ==
    \E item \in Items :
        /\ handed[item] = 1
        /\ alive[item]
        /\ gen[item] = 2

(* C15: when the probe of a just-borrowed entry finds it dead and the     *)
(* reconnect fails, the borrow fails and the entry is dropped: it is      *)
(* neither busy nor free afterwards and the pool size is one less.        *)
C15_DeadEntryDropped ==
    [][\A t \in Threads :
          (/\ pc[t] = "get_pop"
           /\ ~PopRaises
           /\ ~alive[free_items[Len(free_items)]]
           /\ pc'[t] = "idle"
           /\ handed' = handed)
          => /\ free_items[Len(free_items)] \notin busy_items'
             /\ free_items[Len(free_items)] \notin SeqToSet(free_items')
             /\ pool_size' = pool_size - 1]_vars

(* C16: a pool name that is registered keeps resolving to the same        *)
(* manager, also when two constructions with that name race, and two      *)
(* names never resolve to one manager.                                    *)
C16_OneManagerPerName ==
    /\ [][\A n \in PoolNames :
             instances[n] # 0 => instances'[n] = instances[n]]_vars
    /\ [](\A n, m \in PoolNames :
             (n # m /\ instances[n] # 0) => instances[n] # instances[m])

(* C17: connect() calls, one after another or at the same time, fill the  *)
(* pool with one batch of at most step_size entries in all; while the     *)
(* manager is not connected the pool has no entry; no connect() call      *)
(* ends with its throwaway connection left open.                          *)
C17_ConnectFillsOnce ==
    /\ pool_size <= Min(step_size, container_max)
    /\ ~is_connected => pool_size = 0
    /\ \A t \in Threads : pc[t] = "idle" => test_conn[t] # "open"

(* C18: the ceiling an auto-resize publishes is the smaller of the        *)
(* boundary and the old ceiling times the configured scale, rounded,      *)
(* for an old ceiling below the boundary.                                 *)
C18_ResizeFormula ==
    [][\A t \in Threads :
          (pc[t] = "b217" /\ pc'[t] = "extend"
              /\ container_max < pool_resize_boundary) =>
              container_max' =
                  Min(pool_resize_boundary,
                      IntRound(container_max * args.auto_resize_scale))]_vars

(* C19: with a configured size above the boundary no manager comes into   *)
(* being: the threads never get past the construction.                    *)
C19_OversizeRejected ==
    args.max_pool_size > args.pool_resize_boundary =>
        \A t \in Threads : pc[t] \in {"new", "failed"}

(* C20: when a transact() call has ended, a commit was issued exactly if  *)
(* the transaction was begun and every statement succeeded, and after a   *)
(* failed statement a rollback was issued and the call ended by an        *)
(* exception.                                                             *)
C20_TransactAllOrNothing ==
    \A t \in Threads :
        (pc[t] = "idle" /\ tx[t] # NoTx) =>
            /\ tx[t].commits = 1 <=> (tx[t].begun /\ ~tx[t].failed)
            /\ tx[t].failed => (tx[t].rollbacks = 1 /\ tx[t].raised)

(* C21: an entry that enters the free queue, by a return or by an add,    *)
(* is the one the next borrow takes: it is at the end the get pops.       *)
C21_LastInFirstOut ==
    [][Len(free_items') = Len(free_items) + 1 =>
          SeqToSet(free_items') \ SeqToSet(free_items) =
              {free_items'[Len(free_items')]}]_vars

InBorrow == {t \in Threads : pc[t] \in {"get_check", "get_pop"}}

EnoughFree == free_size >= Cardinality(InBorrow)

C23_EnoughFreeNeverMiss ==
    [][/\ \A t \in Threads :
             (EnoughFree /\ pc[t] = "get_check" /\ pc'[t] # "get_check")
             => /\ pc'[t] = "get_pop"
                /\ UNCHANGED <<free_items, busy_items, container_max,
                               max_pool_size>>
       /\ \A t \in Threads :
             (EnoughFree /\ pc[t] = "get_pop" /\ pc'[t] # "get_pop")
             => LET item == free_items[Len(free_items)]
                IN  /\ item \notin busy_items
                    /\ handed[item] = 0
                    /\ \A u \in Threads : conn[u] # item
                    /\ free_items' = SubSeq(free_items, 1, Len(free_items) - 1)
                    /\ busy_items' = busy_items \cup {item}
                    /\ handed'[item] = 1 \/ conn'[t] = item
                    /\ UNCHANGED <<container_max, max_pool_size>>
       /\ (EnoughFree /\ InBorrow' \subseteq InBorrow) => EnoughFree']_vars

C23_Witness ==
    \E t, u \in Threads :
        /\ t # u
        /\ pc[t] = "get_pop"
        /\ pc[u] = "get_pop"
        /\ free_size = 2

(* C24: in one thread that returns every entry before it borrows again,   *)
(* between two cycles no entry is busy, and no step changes the pool      *)
(* size: the free count and the pool size after a cycle are those before. *)
C24_SequentialReuse ==
    /\ [](\A t \in OneThread : pc[t] = "idle" => busy_items = {})
    /\ [][pool_size' = pool_size]_vars

(* C25: with three workers on two entries, every worker eventually has an *)
(* entry, and every worker eventually has finished.                       *)
C25_WorkersAllServed ==
    \A t \in ThreeThreads :
        /\ <>(conn[t] # 0)
        /\ <>(pc[t] = "idle")

(* C26: an add on a container that holds at least as many entries as its  *)
(* ceiling changes neither the entries, the free queue nor the ceiling,   *)
(* and the fill goes on to the retry of the borrow: the borrowing call    *)
(* does not end by the failure.                                           *)
C26_AddBeyondCeilingAbsorbed ==
    [][\A t \in Threads :
          (/\ pc[t] = "extend"
           /\ pool_size >= container_max
           /\ <<pc[t], ext_i[t]>>' # <<pc[t], ext_i[t]>>)
          => /\ UNCHANGED <<free_items, busy_items, container_max>>
             /\ pc'[t] \in {"extend", "get_check"}]_vars

C26_Witness ==
    \E t \in Threads :
        /\ pc[t] = "extend"
        /\ ext_i[t] = 1
        /\ pool_size = container_max
        /\ free_size > 0

(* C27: the ceiling is scaled only while the checks that lead to the      *)
(* resize hold: the pool is at its ceiling and below the boundary.  A     *)
(* miss whose checks were overtaken by the resize of another thread does  *)
(* not scale the ceiling again.                                           *)
C27_ResizeChecksHold ==
    [][\A t \in Threads :
          (pc[t] = "b213" /\ pc'[t] = "b214")
          => /\ pool_size >= max_pool_size
             /\ pool_size < pool_resize_boundary]_vars

(* C28: a fill that ends with the pool still empty has added no entry,    *)
(* and ends the borrowing call by a failure instead of a retry.           *)
C28_EmptyFillIsFatal ==
    [][\A t \in Threads :
          (pc[t] = "extend" /\ pc'[t] # "extend" /\ pool_size' = 0)
          => pc'[t] = "idle"]_vars

(* C29: a thread that is suspended in a blocking get, waiting for a free  *)
(* entry, does not hold the manager's lock, which close() and the resize  *)
(* of another thread need.                                                *)
C29_WaitHoldsNoLock ==
    \A t \in Threads : pc[t] = "get_wait" => safe_lock # t

(* C30: a borrow that has passed the emptiness check finds an entry to    *)
(* remove: no caller is about to pop an empty free queue.                 *)
C30_NoPopOnEmpty ==
    \A t \in Threads : pc[t] = "get_pop" => free_size > 0

(* C31: no connection that a fill created is left open outside the pool:  *)
(* every created connection is an entry of the container or is closed.    *)
C31_NoAbandonedConnection == ~abandoned

====
